---- MODULE Spec2Model ----
(***************************************************************************)
(* GQLify: the `gqlify init` command.                                      *)
(*                                                                         *)
(* bin/gqlify.ts registers one subcommand, `init`, whose action is the     *)
(* async function init() of src/commands/init.ts.  init() resolves the     *)
(* destination <cwd>/.claude and the bundled template directory, skips     *)
(* with a warning when the destination exists, and otherwise copies the    *)
(* template tree with fs-extra's copy(), printing a report; any error      *)
(* thrown inside its try block is reported on stderr and ends the process  *)
(* with exit code 1.                                                       *)
(*                                                                         *)
(* The model keeps the two directory trees (template and destination),     *)
(* the environment conditions the code depends on (the working directory   *)
(* still exists, it is writable), and for every invocation its position in *)
(* init(), its output streams and its exit code.  fs.copy is modelled as   *)
(* fs-extra performs it: a stat of both paths, a mkdir of the destination  *)
(* root, then one write per entry of the source tree, parents first, each  *)
(* of which can fail.                                                      *)
(***************************************************************************)
EXTENDS Integers, Sequences, FiniteSets, TLC

\* Number of invocations of the program in one working directory.
MaxRuns == 2

Runs == 1..MaxRuns

(***************************************************************************)
(* Paths and trees.  A relative path is the sequence of its segments, the  *)
(* way path.join builds it; the root of a tree is the empty sequence.      *)
(***************************************************************************)
Root == <<>>

Parent(path) == SubSeq(path, 1, Len(path) - 1)

\* The relative paths of the example tree of the specification.
DirPaths == { <<"skills">>, <<"skills", "foo">> }

FilePaths == { <<"README.md">>, <<"skills", "foo", "SKILL.md">> }

AllPaths == DirPaths \cup FilePaths

\* File contents are opaque token sequences; some carry placeholder tokens.
Contents == { <<"text">>, <<"text", "$ARGUMENTS">> }

DirEntry == [type |-> "dir", data |-> <<>>]

FileEntry(c) == [type |-> "file", data |-> c]

Entries == {DirEntry} \cup { FileEntry(c) : c \in Contents }

EmptyTree == [x \in {} |-> DirEntry]

\* Every tree over AllPaths: parents precede children, directories are
\* directories and files are files.
Trees ==
    { t \in UNION { [S -> Entries] : S \in SUBSET AllPaths } :
        \A path \in DOMAIN t :
            /\ Len(path) > 1 => Parent(path) \in DOMAIN t
            /\ (t[path].type = "dir") <=> (path \in DirPaths) }

\* What a path of the file system holds: nothing, a regular file, a directory.
Absent == [kind |-> "none", data |-> <<>>, tree |-> EmptyTree]

FileNode(c) == [kind |-> "file", data |-> c, tree |-> EmptyTree]

DirNode(t) == [kind |-> "dir", data |-> <<>>, tree |-> t]

\* What the working directory holds besides .claude: nothing, or a file of
\* the target project.
OtherTrees ==
    { EmptyTree, [path \in { <<"package.json">> } |-> FileEntry(<<"text">>)] }

(***************************************************************************)
(* Absolute paths.  The package is installed under one of InstallRoots;    *)
(* the program is started in one of WorkDirs.                              *)
(***************************************************************************)
WorkDirs == { <<"home", "a">>, <<"home", "b">> }

InstallRoots == { <<"usr", "lib", "gqlify">>,
                  <<"home", "a", "node_modules", "gqlify">> }

\* The working directory and the installation of the invocations of Spec.
MainDir == <<"home", "a">>

MainInstall == <<"usr", "lib", "gqlify">>

\* path.normalize: a ".." segment removes the segment before it.
RECURSIVE Normalize(_, _)
Normalize(done, rest) ==
    IF rest = <<>> THEN done
    ELSE IF Head(rest) = ".."
         THEN Normalize(SubSeq(done, 1, Len(done) - 1), Tail(rest))
         ELSE Normalize(Append(done, Head(rest)), Tail(rest))

\* path.join and path.resolve of an absolute base and a relative path.
PathJoin(base, rel) == Normalize(<<>>, base \o rel)

PathResolve(base, rel) == Normalize(<<>>, base \o rel)

VARIABLES
    template,   \* the node at <package root>/templates/.claude
    disk,       \* per working directory: the node at its .claude
    install,    \* the directory the package is installed in
    cwd,        \* per invocation: the directory it is started in
    others,     \* the other entries of the working directory
    cwdExists,  \* the working directory has not been removed
    writable,   \* the working directory accepts writes
    pc,         \* per invocation: position in the program
    argv,       \* per invocation: the command line arguments
    stdout,     \* per invocation: messages printed with console.log
    stderr,     \* per invocation: messages printed with console.error
    exitCode,   \* per invocation: the process exit code
    todo,       \* per invocation: entries of the source tree still to copy
    log,        \* per invocation: history of the steps taken
    written,    \* per invocation: history of the paths it wrote under .claude
    dest0       \* per invocation: the destination node when it was started

fsVars == <<template, disk, others, cwdExists, writable, install, cwd>>

vars == <<template, disk, install, cwd, others, cwdExists, writable, pc, argv, stdout, stderr,
          exitCode, todo, log, written, dest0>>

\* The node at <cwd>/.claude for the invocations of Spec.
dest == disk[MainDir]

\* __dirname of the compiled init module: <root>/dist/src/commands.
DirName == install \o <<"dist", "src", "commands">>

\* Where the package keeps its template tree: <root>/templates/.claude.
TemplateHome == install \o <<"templates", ".claude">>

\* Line 633: path.join(process.cwd(), '.claude').
TargetDir(p) == PathJoin(cwd[p], <<".claude">>)

\* A template directory looked up from the working directory.
TemplateDirFromCwd(p) == PathResolve(cwd[p], <<"templates", ".claude">>)

\* Line 637: path.resolve(__dirname, '../../../templates/.claude').
TemplateDir(p) ==
    PathResolve(DirName, <<"..", "..", "..", "templates", ".claude">>)

\* What the file system holds at an absolute path.
NodeAt(path) ==
    IF path = TemplateHome THEN template
    ELSE IF \E d \in WorkDirs : path = Append(d, ".claude")
         THEN disk[CHOOSE d \in WorkDirs : path = Append(d, ".claude")]
         ELSE Absent

\* The file system with the node at a .claude path replaced.
WriteAt(path, node) ==
    disk' = [d \in WorkDirs |->
                IF path = Append(d, ".claude") THEN node ELSE disk[d]]

\* The source and the destination of an invocation, as fs sees them.
Source(p) == NodeAt(TemplateDir(p))

Dest(p) == NodeAt(TargetDir(p))

(***************************************************************************)
(* Initial states: every template tree (or a missing template, a broken    *)
(* installation), every content of <cwd>/.claude (nothing, a regular file, *)
(* any tree), a working directory that is writable or not.  A working      *)
(* directory that has been removed holds nothing.                          *)
(***************************************************************************)
Init ==
    /\ template \in {Absent} \cup { DirNode(t) : t \in Trees }
    /\ cwdExists \in BOOLEAN
    /\ writable \in BOOLEAN
    /\ install = MainInstall
    /\ cwd = [p \in Runs |-> MainDir]
    /\ disk \in [WorkDirs -> {Absent} \cup { FileNode(c) : c \in Contents }
                              \cup { DirNode(t) : t \in Trees }]
    /\ \A d \in WorkDirs \ {MainDir} : disk[d] = Absent
    /\ others \in OtherTrees
    /\ ~cwdExists => (dest = Absent /\ others = EmptyTree /\ ~writable)
    /\ pc = [p \in Runs |-> "idle"]
    /\ argv = [p \in Runs |-> <<>>]
    /\ stdout = [p \in Runs |-> <<>>]
    /\ stderr = [p \in Runs |-> <<>>]
    /\ exitCode = [p \in Runs |-> 0]
    /\ todo = [p \in Runs |-> {}]
    /\ log = [p \in Runs |-> <<>>]
    /\ written = [p \in Runs |-> {}]
    /\ dest0 = [p \in Runs |-> Absent]

\* The command lines tried: the subcommand, the help flag, no argument, a
\* subcommand the program does not have.
Argvs == { <<"init">>, <<"--help">>, <<>>, <<"update">> }

Goto(p, label) == pc' = [pc EXCEPT ![p] = label]

Note(p, event) == log' = [log EXCEPT ![p] = Append(@, event)]

ConsoleLog(p, msgs) == stdout' = [stdout EXCEPT ![p] = @ \o msgs]

ConsoleError(p, msgs) == stderr' = [stderr EXCEPT ![p] = @ \o msgs]

\* The process ends with the given code.
Exit(p, code) ==
    /\ Goto(p, "exited")
    /\ exitCode' = [exitCode EXCEPT ![p] = code]

(***************************************************************************)
(* bin/gqlify.ts: program.parse().  commander calls init for `init`,       *)
(* prints the help on stdout and exits 0 for --help, with no subcommand    *)
(* prints the help on stderr and exits 1, and rejects any other            *)
(* subcommand on stderr with exit code 1.                                  *)
(***************************************************************************)
\* A program whose init command is the default command (isDefault).
CommandDefaultInit(args) ==
    IF args \in { <<"init">>, <<>> } THEN "init"
    ELSE IF args = <<"--help">> THEN "help"
    ELSE "unknown"

\* What commander makes of the arguments: `init` is the one subcommand.
Command(args) ==
    IF args = <<"init">> THEN "init"
    ELSE IF args = <<"--help">> THEN "help"
    ELSE IF args = <<>> THEN "none"
    ELSE "unknown"

Dispatch(p) ==
    /\ pc[p] = "idle"
    /\ \E args \in Argvs :
        /\ argv' = [argv EXCEPT ![p] = args]
        /\ IF Command(args) = "init"
              THEN /\ Goto(p, "init")
                   /\ Note(p, "init")
                   /\ UNCHANGED <<stdout, stderr, exitCode>>
              ELSE IF Command(args) = "help"
              THEN /\ ConsoleLog(p, <<"help">>)
                   /\ Exit(p, 0)
                   /\ UNCHANGED <<stderr, log>>
              ELSE /\ ConsoleError(p, IF Command(args) = "none"
                                         THEN <<"help">>
                                         ELSE <<"unknown-command">>)
                   /\ Exit(p, 1)
                   /\ UNCHANGED <<stdout, log>>
    /\ dest0' = [dest0 EXCEPT ![p] = Dest(p)]
    /\ UNCHANGED <<fsVars, todo, written>>

(***************************************************************************)
(* init(), lines 633-640: process.cwd() throws when the working directory  *)
(* has been removed; the statement is outside the try block, so the        *)
(* promise init() returned is rejected and, program.parse() having         *)
(* dropped it, Node reports an unhandled rejection and exits with code 1.  *)
(* Otherwise both paths are resolved and the banner is printed.            *)
(***************************************************************************)
\* An init that verifies the bundled template before anything else and
\* throws inside the try block when it is missing.
InitResolveChecksTemplate(p) ==
    /\ pc[p] = "init"
    /\ IF cwdExists
          THEN /\ ConsoleLog(p, <<"banner">>)
               /\ Goto(p, IF template.kind = "dir" THEN "check" ELSE "catch")
               /\ Note(p, "resolved")
               /\ UNCHANGED <<stderr, exitCode>>
          ELSE /\ ConsoleError(p, <<"unhandled-rejection">>)
               /\ Exit(p, 1)
               /\ Note(p, "resolve-error")
               /\ UNCHANGED stdout
    /\ UNCHANGED <<fsVars, argv, todo, written, dest0>>

\* An init that starts the copy without the existence check.
InitResolveNoCheck(p) ==
    /\ pc[p] = "init"
    /\ IF cwdExists
          THEN /\ ConsoleLog(p, <<"banner", "copying">>)
               /\ Goto(p, "copy")
               /\ Note(p, "resolved")
               /\ UNCHANGED <<stderr, exitCode>>
          ELSE /\ ConsoleError(p, <<"unhandled-rejection">>)
               /\ Exit(p, 1)
               /\ Note(p, "resolve-error")
               /\ UNCHANGED stdout
    /\ UNCHANGED <<fsVars, argv, todo, written, dest0>>

InitResolve(p) ==
    /\ pc[p] = "init"
    /\ IF cwdExists
          THEN /\ ConsoleLog(p, <<"banner">>)
               /\ Goto(p, "check")
               /\ Note(p, "resolved")
               /\ UNCHANGED <<stderr, exitCode>>
          ELSE /\ ConsoleError(p, <<"unhandled-rejection">>)
               /\ Exit(p, 1)
               /\ Note(p, "resolve-error")
               /\ UNCHANGED stdout
    /\ UNCHANGED <<fsVars, argv, todo, written, dest0>>

\* A check that takes an empty directory for a project not yet initialised.
PathExistsNonEmpty(node) ==
    \/ node.kind = "file"
    \/ node.kind = "dir" /\ DOMAIN node.tree # {}

\* A check that asks for a directory at the path.
PathIsDirectory(node) == node.kind = "dir"

\* fs.pathExists: true for whatever the path holds.
PathExists(node) == node.kind # "none"

\* Lines 649-650: announce the copy and call fs.copy.
CopyBranch(p) ==
    /\ ConsoleLog(p, <<"copying">>)
    /\ Goto(p, "copy")
    /\ Note(p, "not-exists")
    /\ UNCHANGED <<stderr, exitCode>>

\* The skip branch without its return: the warning, then the copy anyway.
SkipBranchFallsThrough(p) ==
    /\ ConsoleLog(p, <<"already-exists", "copying">>)
    /\ Goto(p, "copy")
    /\ Note(p, "skip")
    /\ UNCHANGED <<stderr, exitCode>>

\* The skip branch treating an existing destination as an error.
SkipBranchAsError(p) ==
    /\ ConsoleError(p, <<"already-exists">>)
    /\ Exit(p, 1)
    /\ Note(p, "skip")
    /\ UNCHANGED stdout

\* Lines 644-646: warn and return; the process then ends with code 0.
SkipBranch(p) ==
    /\ ConsoleLog(p, <<"already-exists">>)
    /\ Exit(p, 0)
    /\ Note(p, "skip")
    /\ UNCHANGED stderr

\* Lines 642-649: the existence check and its two branches.
InitCheck(p) ==
    /\ pc[p] = "check"
    /\ IF PathExists(Dest(p)) THEN SkipBranch(p) ELSE CopyBranch(p)
    /\ UNCHANGED <<fsVars, argv, todo, written, dest0>>

(***************************************************************************)
(* fs.copy(templateDir, targetDir), line 650.  An error at any step        *)
(* rejects the promise, and `await` throws it into the catch block.        *)
(***************************************************************************)
\* A rejection of fs.copy that never reaches the catch block.
ThrowSwallowed(p) ==
    /\ Goto(p, "report")
    /\ Note(p, "copy-error")

\* An error handler that tries the copy again.
ThrowRetry(p) ==
    /\ Goto(p, "copy")
    /\ Note(p, "copy-error")

Throw(p) ==
    /\ Goto(p, "catch")
    /\ Note(p, "copy-error")

\* A walk that keeps the files and the directories leading to them, and so
\* drops every directory that holds no file.
SourceEntriesOfFiles(t) ==
    { path \in DOMAIN t :
        \E f \in DOMAIN t :
            /\ t[f].type = "file"
            /\ Len(path) <= Len(f)
            /\ SubSeq(f, 1, Len(path)) = path }

\* The entries of the source tree that copy walks.
SourceEntries(t) == DOMAIN t

\* A copy that fills in the placeholders of the file.
CopyFileDataSubstituted(c) ==
    [i \in 1..Len(c) |-> IF c[i] = "$ARGUMENTS" THEN "value" ELSE c[i]]

\* copyFile: the destination file gets the bytes of the source file.
CopyFileData(c) == c

CopyEntry(e) ==
    IF e.type = "dir" THEN DirEntry ELSE FileEntry(CopyFileData(e.data))

\* checkPaths: stat the source (ENOENT when it is missing) and the
\* destination; a directory cannot replace a regular file.
CopyCheckPaths(p) ==
    /\ pc[p] = "copy"
    /\ IF Source(p).kind # "dir" \/ Dest(p).kind = "file"
          THEN /\ Throw(p)
               /\ UNCHANGED todo
          ELSE /\ todo' = [todo EXCEPT ![p] = SourceEntries(Source(p).tree)]
               /\ Goto(p, IF Dest(p).kind = "none" THEN "mkdir" ELSE "items")
               /\ Note(p, "stat")
    /\ UNCHANGED <<fsVars, argv, stdout, stderr, exitCode, written, dest0>>

\* onDir: mkdir of the destination root, which fails without write
\* permission, when the path has appeared meanwhile, or on an I/O error.
CopyMkdir(p) ==
    /\ pc[p] = "mkdir"
    /\ \E fault \in BOOLEAN :
        IF writable /\ Dest(p).kind = "none" /\ ~fault
           THEN /\ WriteAt(TargetDir(p), DirNode(EmptyTree))
                /\ written' = [written EXCEPT ![p] = @ \cup {Root}]
                /\ Goto(p, "items")
                /\ Note(p, "mkdir")
           ELSE /\ Throw(p)
                /\ UNCHANGED <<disk, written>>
    /\ UNCHANGED <<template, others, cwdExists, writable, install, cwd, argv,
                   stdout, stderr,
                   exitCode, todo, dest0>>

\* The destination tree with one more entry copied into it.
WithEntry(t, path, e) ==
    [q \in DOMAIN t \cup {path} |-> IF q = path THEN e ELSE t[q]]

\* The entries that can be copied now: their parent directory is done.
Ready(p) == { path \in todo[p] : Parent(path) \notin todo[p] }

\* One entry of the source tree: mkdir for a directory that is not there
\* yet, copyFile for a file (an existing file is replaced, overwrite being
\* fs-extra's default).
CopyItem(p) ==
    /\ pc[p] = "items"
    /\ \E path \in Ready(p), fault \in BOOLEAN :
        IF /\ writable
           /\ ~fault
           /\ Dest(p).kind = "dir"
           /\ Len(path) > 1 => Parent(path) \in DOMAIN Dest(p).tree
           THEN /\ WriteAt(TargetDir(p),
                           DirNode(WithEntry(Dest(p).tree, path,
                                             CopyEntry(Source(p).tree[path]))))
                /\ written' = [written EXCEPT ![p] =
                                 IF path \in DirPaths /\ path \in DOMAIN Dest(p).tree
                                    THEN @ ELSE @ \cup {path}]
                /\ todo' = [todo EXCEPT ![p] = @ \ {path}]
                /\ Note(p, IF path \notin DOMAIN Dest(p).tree THEN "write"
                            ELSE IF path \in FilePaths THEN "overwrite"
                            ELSE "merge")
                /\ UNCHANGED pc
           ELSE /\ Throw(p)
                /\ UNCHANGED <<disk, written, todo>>
    /\ UNCHANGED <<template, others, cwdExists, writable, install, cwd, argv,
                   stdout, stderr,
                   exitCode, dest0>>

\* Every entry is copied: the promise resolves.
CopyDone(p) ==
    /\ pc[p] = "items"
    /\ todo[p] = {}
    /\ Goto(p, "report")
    /\ Note(p, "copy-ok")
    /\ UNCHANGED <<fsVars, argv, stdout, stderr, exitCode, todo, written, dest0>>

\* A report that counts and lists the skills found in the template tree.
SuccessReportFromTemplate ==
    LET skills == IF template.kind = "dir"
                  THEN { path \in DOMAIN template.tree :
                           Len(path) = 2 /\ path[1] = "skills" }
                  ELSE {}
    IN  <<"Installed Resources:">>
        \o (IF skills = {}
            THEN <<"0 executable skills for code generation">>
            ELSE <<"1 executable skills for code generation",
                   "Available Skills:", "/gqlify:foo">>)
        \o <<"Next Steps:",
              "1. Read .claude/README.md for overview">>

\* Lines 654-684: the lines of the report that follow the success headline,
\* every one a literal of the source.
SuccessReport ==
    <<
       "Installed Resources:",
       "20 executable skills for code generation",
       "Architecture & conventions documentation",
       "Security audit guides",
       "Testing patterns & templates",
       "Available Skills:",
       "Core Generation:",
       "/gqlify:generate-module <Entity> - Scaffold complete module",
       "/gqlify:generate-field <Module> - Add DataLoader field",
       "/gqlify:add-field <Module> - Add entity property",
       "Advanced Features:",
       "/gqlify:add-export <Module> - CSV/Excel export",
       "/gqlify:add-filter <Module> - Advanced filtering",
       "/gqlify:add-i18n <Module> - Internationalization",
       "/gqlify:add-pagination <Module> - Paginated responses",
       "Code Quality:",
       "/gqlify:validate [--fix] - Validate code patterns",
       "/gqlify:audit-security - Security audit",
       "/gqlify:setup - Verify project setup",
       "See all 20 skills: ls .claude/skills/",
       "Next Steps:",
       "1. Read .claude/README.md for overview",
       "2. Review .claude/RULES.md for key constraints",
       "3. Try: /gqlify:generate-module Product",
       "4. Start building with Claude Code!"
    >>

\* A report step that also adds .claude to the project's .gitignore.
InitReportGitignore(p) ==
    /\ pc[p] = "report"
    /\ ConsoleLog(p, <<"success">> \o SuccessReport)
    /\ Exit(p, 0)
    /\ Note(p, "report")
    /\ others' = WithEntry(others, <<".gitignore">>, FileEntry(<<"text">>))
    /\ UNCHANGED <<template, disk, cwdExists, writable, install, cwd, argv,
                   stderr, todo,
                   written, dest0>>

\* Lines 652-684: the success report; init returns and the process ends.
InitReport(p) ==
    /\ pc[p] = "report"
    /\ ConsoleLog(p, <<"success">> \o SuccessReport)
    /\ Exit(p, 0)
    /\ Note(p, "report")
    /\ UNCHANGED <<fsVars, argv, stderr, todo, written, dest0>>

\* A catch block that reports and returns, without process.exit(1).
InitCatchNoExit(p) ==
    /\ pc[p] = "catch"
    /\ ConsoleError(p, <<"error", "troubleshooting">>)
    /\ Exit(p, 0)
    /\ Note(p, "catch")
    /\ UNCHANGED <<fsVars, argv, stdout, todo, written, dest0>>

\* A catch block that prints the error alone.
InitCatchNoHints(p) ==
    /\ pc[p] = "catch"
    /\ ConsoleError(p, <<"error">>)
    /\ Exit(p, 1)
    /\ Note(p, "catch")
    /\ UNCHANGED <<fsVars, argv, stdout, todo, written, dest0>>

\* A catch block that removes the destination before it exits.
InitCatchRollback(p) ==
    /\ pc[p] = "catch"
    /\ ConsoleError(p, <<"error", "troubleshooting">>)
    /\ Exit(p, 1)
    /\ Note(p, "catch")
    /\ WriteAt(TargetDir(p), Absent)
    /\ UNCHANGED <<template, others, cwdExists, writable, install, cwd, argv,
                   stdout, todo,
                   written, dest0>>

\* A catch block that prints its report with console.log.
InitCatchToStdout(p) ==
    /\ pc[p] = "catch"
    /\ ConsoleLog(p, <<"error", "troubleshooting">>)
    /\ Exit(p, 1)
    /\ Note(p, "catch")
    /\ UNCHANGED <<fsVars, argv, stderr, todo, written, dest0>>

\* A catch block that exits with code 1 and prints nothing.
InitCatchSilent(p) ==
    /\ pc[p] = "catch"
    /\ Exit(p, 1)
    /\ Note(p, "catch")
    /\ UNCHANGED <<fsVars, argv, stdout, stderr, todo, written, dest0>>

\* Lines 686-693: the error, the troubleshooting list, process.exit(1).
InitCatch(p) ==
    /\ pc[p] = "catch"
    /\ ConsoleError(p, <<"error", "troubleshooting">>)
    /\ Exit(p, 1)
    /\ Note(p, "catch")
    /\ UNCHANGED <<fsVars, argv, stdout, todo, written, dest0>>

\* One user runs the program again and again: an invocation starts when
\* the ones before it have ended.
InOrder(p) == \A q \in Runs : q < p => pc[q] = "exited"

Next ==
    \E p \in Runs :
        \/ InOrder(p) /\ Dispatch(p)
        \/ InitResolve(p)
        \/ InitCheck(p)
        \/ CopyCheckPaths(p)
        \/ CopyMkdir(p)
        \/ CopyItem(p)
        \/ CopyDone(p)
        \/ InitReport(p)
        \/ InitCatch(p)

Spec == Init /\ [][Next]_vars

\* Invocations started in the same working directory without waiting for
\* one another: their steps interleave at every await of init and fs.copy.
RaceNext ==
    \E p \in Runs :
        \/ Dispatch(p)
        \/ InitResolve(p)
        \/ InitCheck(p)
        \/ CopyCheckPaths(p)
        \/ CopyMkdir(p)
        \/ CopyItem(p)
        \/ CopyDone(p)
        \/ InitReport(p)
        \/ InitCatch(p)

SpecRace == Init /\ [][RaceNext]_vars

\* A process that has been started runs on: Node's event loop takes every
\* step of init that is ready.  Nothing makes the user start a process.
Step(p) ==
    \/ InitResolve(p)
    \/ InitCheck(p)
    \/ CopyCheckPaths(p)
    \/ CopyMkdir(p)
    \/ CopyItem(p)
    \/ CopyDone(p)
    \/ InitReport(p)
    \/ InitCatch(p)

FairSpec == Spec /\ \A p \in Runs : WF_vars(Step(p))

\* The trees whose files carry no placeholder token.
PlainTrees ==
    { t \in Trees :
        \A path \in DOMAIN t : t[path].type = "file" => t[path].data = <<"text">> }

\* One installation, wherever it is, run from working directories chosen
\* for each invocation, none of which holds a .claude yet.
InitDirs ==
    /\ template \in { DirNode(t) : t \in PlainTrees }
    /\ cwdExists = TRUE
    /\ writable = TRUE
    /\ install \in InstallRoots
    /\ cwd \in [Runs -> WorkDirs]
    /\ disk = [d \in WorkDirs |-> Absent]
    /\ others = EmptyTree
    /\ pc = [p \in Runs |-> "idle"]
    /\ argv = [p \in Runs |-> <<>>]
    /\ stdout = [p \in Runs |-> <<>>]
    /\ stderr = [p \in Runs |-> <<>>]
    /\ exitCode = [p \in Runs |-> 0]
    /\ todo = [p \in Runs |-> {}]
    /\ log = [p \in Runs |-> <<>>]
    /\ written = [p \in Runs |-> {}]
    /\ dest0 = [p \in Runs |-> Absent]

SpecDirs == InitDirs /\ [][Next]_vars

TypeOK ==
    /\ template \in {Absent} \cup { DirNode(t) : t \in Trees }
    /\ dest.kind \in {"none", "file", "dir"}
    /\ \A p \in Runs :
        /\ pc[p] \in {"idle", "init", "check", "copy", "mkdir", "items",
                      "report", "catch", "exited"}
        /\ exitCode[p] \in {0, 1}
        /\ todo[p] \subseteq AllPaths

(***************************************************************************)
(* Properties of `gqlify init`, checked under Spec: the invocations of one *)
(* working directory, one after the other.                                 *)
(***************************************************************************)
Has(seq, x) == \E i \in DOMAIN seq : seq[i] = x

\* x occurs in seq, and y occurs after it.
Before(seq, x, y) ==
    \E i, j \in DOMAIN seq : i < j /\ seq[i] = x /\ seq[j] = y

\* Invocation p ran the init routine.
IsInit(p) == argv[p] = <<"init">>

Ended(p) == pc[p] = "exited"

\* Positions of init() that lie on the copy path.
CopyLabels == {"copy", "mkdir", "items", "report", "catch"}

\* C1: whenever a .claude directory exists in the working directory when
\* init runs, init performs no copy (it never enters the copy path and
\* writes nothing), prints the warning, and the process ends with exit
\* code 0 and nothing on stderr.
C1_SkipWhenDestinationExists ==
    \A p \in Runs :
        (IsInit(p) /\ dest0[p].kind = "dir") =>
            /\ pc[p] \notin CopyLabels
            /\ written[p] = {}
            /\ ~Has(log[p], "stat")
            /\ Ended(p) =>
                /\ Has(stdout[p], "already-exists")
                /\ stderr[p] = <<>>
                /\ exitCode[p] = 0

\* An init that ended in a working directory whose .claude directory was
\* there, with a template and write permission at hand.
C1_Witness ==
    \E p \in Runs :
        /\ IsInit(p) /\ Ended(p)
        /\ dest0[p].kind = "dir"
        /\ template.kind = "dir" /\ writable
        /\ Has(stdout[p], "already-exists")

\* C2: when init runs where there is no .claude and the copy raises no
\* error, .claude exists afterwards and holds, for every file and
\* directory of the template tree, an entry at the same relative path with
\* the same type and the same content.
C2_CopyPreservesPathsAndContent ==
    \A p \in Runs :
        (IsInit(p) /\ dest0[p].kind = "none" /\ Has(log[p], "copy-ok")) =>
            /\ dest.kind = "dir"
            /\ \A path \in DOMAIN template.tree :
                /\ path \in DOMAIN dest.tree
                /\ dest.tree[path] = template.tree[path]

\* A finished copy of a template that has a nested file with a
\* placeholder token in it.
C2_Witness ==
    \E p \in Runs :
        /\ IsInit(p) /\ Ended(p)
        /\ dest0[p].kind = "none"
        /\ Has(log[p], "copy-ok")
        /\ <<"skills", "foo", "SKILL.md">> \in DOMAIN template.tree
        /\ template.tree[<<"skills", "foo", "SKILL.md">>].data
             = <<"text", "$ARGUMENTS">>

\* C3: after a successful init the set of relative paths under .claude is
\* exactly the set of relative paths of the template tree: none missing,
\* none added.
C3_CopiedPathsEqualTemplatePaths ==
    \A p \in Runs :
        (IsInit(p) /\ Has(stdout[p], "success")) =>
            /\ dest.kind = "dir"
            /\ DOMAIN dest.tree = DOMAIN template.tree

\* A successful init of a template that has a directory with no file
\* below it, next to a file.
C3_Witness ==
    \E p \in Runs :
        /\ IsInit(p) /\ Ended(p)
        /\ Has(stdout[p], "success")
        /\ DOMAIN template.tree = { <<"README.md">>, <<"skills">> }

\* C4: after one successful init, every further init in the same directory
\* writes nothing, leaves .claude as it found it, prints the warning and
\* not an error, and exits 0; the destination after the later init is the
\* destination the successful init left (the template tree).
C4_InitIdempotent ==
    \A p, q \in Runs :
        (p < q /\ IsInit(p) /\ Has(stdout[p], "success") /\ IsInit(q)) =>
            /\ written[q] = {}
            /\ pc[q] \notin CopyLabels
            /\ dest = dest0[q]
            /\ dest = DirNode(template.tree)
            /\ Ended(q) =>
                /\ Has(stdout[q], "already-exists")
                /\ ~Has(stdout[q], "success")
                /\ stderr[q] = <<>>
                /\ exitCode[q] = 0

\* A successful init of a template with files, and a later init that ended.
C4_Witness ==
    \E p, q \in Runs :
        /\ p < q
        /\ IsInit(p) /\ Has(stdout[p], "success")
        /\ IsInit(q) /\ Ended(q)
        /\ <<"README.md">> \in DOMAIN template.tree

\* C5: an existing .claude is never overwritten or updated: whatever it
\* was when init was started (a tree that differs from the template, an
\* empty directory, a regular file), it is the same at every later moment
\* of the invocation and after it, and the invocation writes nothing.
C5_ExistingDestinationUntouched ==
    \A p \in Runs :
        (IsInit(p) /\ dest0[p].kind # "none") =>
            /\ dest = dest0[p]
            /\ written[p] = {}

\* An init that ended where .claude held a tree other than the template's,
\* although the template was there and the directory writable.
C5_Witness ==
    \E p \in Runs :
        /\ IsInit(p) /\ Ended(p)
        /\ dest0[p].kind = "dir"
        /\ template.kind = "dir" /\ writable
        /\ dest0[p].tree # template.tree
        /\ <<"README.md">> \in DOMAIN dest0[p].tree
        /\ <<"README.md">> \in DOMAIN template.tree
        /\ dest0[p].tree[<<"README.md">>] # template.tree[<<"README.md">>]

\* C6: an init invocation ends with exit code 0 exactly when it skipped
\* because the destination existed or completed the copy without error,
\* and with exit code 1 whenever an error occurred during the copy.
C6_ExitCodeContract ==
    \A p \in Runs :
        (IsInit(p) /\ Ended(p)) =>
            /\ (exitCode[p] = 0) <=>
                   (Has(log[p], "skip") \/ Has(log[p], "copy-ok"))
            /\ Has(log[p], "copy-error") => exitCode[p] = 1

\* An init whose copy failed and ended with code 1, then an init that
\* skipped and ended with code 0.
C6_Witness ==
    \E p, q \in Runs :
        /\ IsInit(p) /\ Ended(p)
        /\ Has(log[p], "copy-error") /\ exitCode[p] = 1
        /\ IsInit(q) /\ Ended(q)
        /\ Has(log[q], "skip") /\ exitCode[q] = 0

C8_CopyErrorsReported ==
    \A p \in Runs :
        (IsInit(p) /\ Has(log[p], "copy-error")) =>
            /\ dest0[p].kind = "none"
            /\ pc[p] \in {"catch", "exited"}
            /\ ~Has(stdout[p], "success")
            /\ Ended(p) =>
                /\ stderr[p] = <<"error", "troubleshooting">>
                /\ exitCode[p] # 0

\* An init that ended after the copy failed for want of the bundled
\* template.
C8_Witness ==
    \E p \in Runs :
        /\ IsInit(p) /\ Ended(p)
        /\ template.kind = "none"
        /\ Has(log[p], "copy-error")
        /\ Has(stderr[p], "troubleshooting")

\* C9: a failure of path resolution is handled like a failure of the
\* copy: it is reported with the troubleshooting message and the process
\* exits non-zero.
C9_ResolveFailureReported ==
    \A p \in Runs :
        (IsInit(p) /\ Ended(p) /\ Has(log[p], "resolve-error")) =>
            /\ Has(stderr[p], "troubleshooting")
            /\ exitCode[p] # 0

\* C10: no rollback: once the copy has failed, everything the invocation
\* had written under .claude is still there, with the content it was
\* given, up to and after the exit with a non-zero code.
C10_NoRollback ==
    \A p \in Runs :
        (IsInit(p) /\ Has(log[p], "copy-error")) =>
            /\ \A path \in written[p] :
                /\ dest.kind = "dir"
                /\ path # Root =>
                    /\ path \in DOMAIN dest.tree
                    /\ dest.tree[path] = template.tree[path]
            /\ Ended(p) => exitCode[p] # 0

\* An init that ended after the copy failed part-way: a file is written,
\* other entries are not.
C10_Witness ==
    \E p \in Runs :
        /\ IsInit(p) /\ Ended(p)
        /\ Has(log[p], "copy-error")
        /\ \E path \in written[p] : path \in FilePaths
        /\ todo[p] # {}
        /\ exitCode[p] = 1

\* C11: init writes only at or below <cwd>/.claude: no step of any
\* invocation, on the success, skip and error paths alike, changes the
\* template tree or any other entry of the working directory, and what an
\* invocation has written is the destination root or a path below it.
C11_WritesOnlyUnderDestination ==
    [][/\ template' = template
       /\ others' = others
       /\ \A p \in Runs : written'[p] \subseteq {Root} \cup AllPaths]_vars

\* A project with a file of its own in which one init copied files and
\* ended, and a later init ended too.
C11_Witness ==
    \E p, q \in Runs :
        /\ p < q
        /\ IsInit(p) /\ Ended(p)
        /\ \E path \in written[p] : path \in FilePaths
        /\ IsInit(q) /\ Ended(q)
        /\ <<"package.json">> \in DOMAIN others

\* The messages init prints with console.log and with console.error (the
\* last one is Node's own report of a rejected promise).
Elements(seq) == { seq[i] : i \in DOMAIN seq }

StdoutMessages ==
    {"banner", "already-exists", "copying", "success"}
        \cup Elements(SuccessReport)

StderrMessages == {"error", "troubleshooting", "unhandled-rejection"}

\* C12: the banner, the already-exists warning and the success report go
\* to standard output and nothing goes to standard error on the skip and
\* success paths; the failure message and its troubleshooting list go to
\* standard error and never to standard output, and they are never
\* written on a run that exits 0.
C12_OutputStreams ==
    \A p \in Runs :
        IsInit(p) =>
            /\ Elements(stdout[p]) \subseteq StdoutMessages
            /\ Elements(stderr[p]) \subseteq StderrMessages
            /\ (Has(log[p], "skip") \/ Has(log[p], "copy-ok")) =>
                   stderr[p] = <<>>
            /\ (Ended(p) /\ Has(log[p], "skip")) =>
                   stdout[p] = <<"banner", "already-exists">>
            /\ (Ended(p) /\ Has(log[p], "copy-ok")) =>
                   stdout[p] = <<"banner", "copying", "success">> \o SuccessReport
            /\ (Ended(p) /\ Has(log[p], "copy-error")) =>
                   stderr[p] = <<"error", "troubleshooting">>
            /\ (Has(stderr[p], "error") \/ Has(stderr[p], "troubleshooting")) =>
                   (Ended(p) /\ exitCode[p] # 0)

\* A failed init that printed the banner on stdout and the failure message
\* on stderr, and a later init that skipped.
C12_Witness ==
    \E p, q \in Runs :
        /\ IsInit(p) /\ Ended(p)
        /\ Has(stdout[p], "banner") /\ Has(stderr[p], "error")
        /\ IsInit(q) /\ Ended(q)
        /\ Has(stdout[q], "already-exists") /\ stderr[q] = <<>>

\* The number of times x occurs in seq.
Count(seq, x) == Cardinality({ i \in DOMAIN seq : seq[i] = x })

\* C13: `init` is the one subcommand: an invocation with `init` calls the
\* init routine exactly once, as its first step, and an invocation with
\* anything else (the help flag, no argument, another subcommand) ends
\* without having run any step of init and without a write to .claude.
C13_InitDispatchedOnlyByInit ==
    \A p \in Runs :
        pc[p] # "idle" =>
            /\ IsInit(p) => (Count(log[p], "init") = 1 /\ log[p][1] = "init")
            /\ ~IsInit(p) =>
                /\ Ended(p)
                /\ log[p] = <<>>
                /\ written[p] = {}
                /\ Elements(stdout[p]) \cap StdoutMessages = {}

\* In a writable directory without .claude and with the template at hand:
\* an invocation with another subcommand that ended, and an init that ran.
C13_Witness ==
    \E p, q \in Runs :
        /\ argv[p] = <<"update">> /\ Ended(p)
        /\ dest0[p].kind = "none" /\ writable /\ template.kind = "dir"
        /\ IsInit(q) /\ Ended(q) /\ Has(log[q], "copy-ok")

\* The steps of the copy path: the reads of the template, the writes to
\* the destination, and what follows them.
CopyEvents ==
    {"stat", "mkdir", "write", "overwrite", "merge", "copy-ok", "copy-error",
     "report", "catch"}

\* C14: an invocation of init is linear: the existence check comes once,
\* third after the call and the path resolution, and before every read of
\* the template and every write to the destination; it takes the skip or
\* the copy branch, never both; the skip warning and the success report
\* are printed only once their branch is taken.
C14_CheckThenCopyOrSkipThenReport ==
    \A p \in Runs :
        IsInit(p) =>
            /\ Count(log[p], "skip") + Count(log[p], "not-exists") <= 1
            /\ Len(log[p]) >= 3 =>
                   (log[p][2] = "resolved" /\ log[p][3] \in {"skip", "not-exists"})
            /\ \A i \in DOMAIN log[p] :
                   log[p][i] \in CopyEvents =>
                       \E j \in 1..(i - 1) : log[p][j] = "not-exists"
            /\ written[p] # {} => Has(log[p], "not-exists")
            /\ Has(log[p], "skip") =>
                   (Elements(log[p]) \cap CopyEvents = {} /\ written[p] = {})
            /\ Has(stdout[p], "already-exists") => Has(log[p], "skip")
            /\ Has(stdout[p], "success") =>
                   Before(log[p], "not-exists", "copy-ok")

\* An init that copied and reported, then an init that skipped.
C14_Witness ==
    \E p, q \in Runs :
        /\ IsInit(p) /\ Ended(p) /\ Has(stdout[p], "success")
        /\ \E path \in written[p] : path \in FilePaths
        /\ IsInit(q) /\ Ended(q) /\ Has(stdout[q], "already-exists")

\* C15: under every interleaving of the init invocations of one working
\* directory, at most one invocation performs the copy (writes under
\* .claude) and no file already present under .claude is overwritten.
C15_NoOverwriteUnderInterleaving ==
    /\ Cardinality({ p \in Runs : IsInit(p) /\ written[p] # {} }) <= 1
    /\ \A p \in Runs : ~Has(log[p], "overwrite")

\* C16: after an init whose copy failed and left .claude on disk, every
\* later init in the same directory takes the skip path: it writes
\* nothing, prints the warning and exits 0, and the destination stays as
\* the failure left it, without the entries that were not copied.
C16_PartialDestinationNeverRepaired ==
    \A p, q \in Runs :
        (/\ p < q
         /\ IsInit(p) /\ Has(log[p], "copy-error") /\ Root \in written[p]
         /\ IsInit(q)) =>
            /\ written[q] = {}
            /\ pc[q] \notin CopyLabels
            /\ dest = dest0[q]
            /\ todo[p] # {}
            /\ todo[p] \cap DOMAIN dest.tree = {}
            /\ DOMAIN dest.tree # DOMAIN template.tree
            /\ Ended(q) =>
                /\ Has(log[q], "skip")
                /\ Has(stdout[q], "already-exists")
                /\ stderr[q] = <<>>
                /\ exitCode[q] = 0

\* An init that failed right after the mkdir of .claude, in a directory
\* that is writable, and a later init that ended.
C16_Witness ==
    \E p, q \in Runs :
        /\ p < q
        /\ IsInit(p) /\ Has(log[p], "copy-error") /\ written[p] = {Root}
        /\ writable
        /\ IsInit(q) /\ Ended(q)

\* C17: the skip depends on the existence of the path .claude alone: an
\* init that has ended skipped exactly when the path held something at
\* its start, and then, be it an empty directory, a partly filled one or a
\* regular file, init did nothing but warn, exited 0 and left the entry
\* as it was.
C17_SkipOnAnyExistingPath ==
    \A p \in Runs :
        (IsInit(p) /\ Ended(p) /\ cwdExists) =>
            /\ Has(log[p], "skip") <=> (dest0[p].kind \in {"file", "dir"})
            /\ (dest0[p].kind \in {"file", "dir"}) =>
                /\ log[p] = <<"init", "resolved", "skip">>
                /\ stdout[p] = <<"banner", "already-exists">>
                /\ exitCode[p] = 0
                /\ dest = dest0[p]

\* An init that ended where .claude was a regular file, the template at
\* hand and the directory writable.
C17_Witness ==
    \E p \in Runs :
        /\ IsInit(p) /\ Ended(p)
        /\ dest0[p].kind = "file"
        /\ template.kind = "dir" /\ writable

\* C18: the bundled template is looked at on the copy path only: with the
\* template missing, an init where .claude exists ends with the warning
\* and exit code 0 and nothing on stderr, and an init where it does not
\* exist ends with the failure report and exit code 1.
C18_TemplateNeededOnlyForCopy ==
    \A p \in Runs :
        (IsInit(p) /\ Ended(p) /\ cwdExists /\ template.kind = "none") =>
            IF dest0[p].kind # "none"
               THEN /\ Has(stdout[p], "already-exists")
                    /\ stderr[p] = <<>>
                    /\ exitCode[p] = 0
                    /\ Elements(log[p]) \cap CopyEvents = {}
               ELSE /\ log[p] = <<"init", "resolved", "not-exists",
                                  "copy-error", "catch">>
                    /\ stderr[p] = <<"error", "troubleshooting">>
                    /\ exitCode[p] = 1

\* An init that ended with code 0 where .claude was a directory and the
\* bundled template was missing.
C18_Witness ==
    \E p \in Runs :
        /\ IsInit(p) /\ Ended(p)
        /\ template.kind = "none"
        /\ dest0[p].kind = "dir"
        /\ exitCode[p] = 0

\* C19: no retries: within one invocation the existence check is made at
\* most once and the copy is started at most once; the first error is the
\* only one, and the one step that follows it is the catch block, which
\* ends the process.
C19_NoRetry ==
    \A p \in Runs :
        IsInit(p) =>
            /\ Count(log[p], "skip") + Count(log[p], "not-exists") <= 1
            /\ Count(log[p], "stat") <= 1
            /\ Count(log[p], "mkdir") <= 1
            /\ Count(log[p], "copy-error") <= 1
            /\ \A i \in DOMAIN log[p] :
                   log[p][i] = "copy-error" =>
                       \/ i = Len(log[p]) /\ pc[p] = "catch"
                       \/ /\ i + 1 = Len(log[p])
                          /\ log[p][i + 1] = "catch"
                          /\ Ended(p)

\* An init that ended after an error in the middle of the copy, in a
\* writable directory with the template at hand, where a second attempt
\* could have gone through.
C19_Witness ==
    \E p \in Runs :
        /\ IsInit(p) /\ Ended(p)
        /\ writable /\ template.kind = "dir"
        /\ Has(log[p], "write") /\ Has(log[p], "copy-error")

\* The three ways an init invocation ends.
Skipped(p) ==
    /\ Has(log[p], "skip")
    /\ Has(stdout[p], "already-exists")
    /\ exitCode[p] = 0

Copied(p) ==
    /\ Has(log[p], "copy-ok")
    /\ Has(stdout[p], "success")
    /\ exitCode[p] = 0

Failed(p) ==
    /\ stderr[p] # <<>>
    /\ exitCode[p] # 0

\* C20: every init invocation that is started ends, and it ends in
\* exactly one of three ways: skipped with the warning and exit code 0,
\* copied with the success report and exit code 0, or failed with an error
\* message on stderr and a non-zero exit code (the message of the catch
\* block, or Node's own when process.cwd() threw).
C20_TerminatesInOneOutcome ==
    /\ [](\A p \in Runs :
            (IsInit(p) /\ Ended(p)) =>
                /\ Skipped(p) \/ Copied(p) \/ Failed(p)
                /\ ~(Skipped(p) /\ Copied(p))
                /\ ~(Skipped(p) /\ Failed(p))
                /\ ~(Copied(p) /\ Failed(p)))
    /\ \A p \in Runs : (pc[p] = "init") ~> Ended(p)

\* Two inits that ended differently: the first failed during the copy,
\* the second skipped.
C20_Witness ==
    \E p, q \in Runs :
        /\ IsInit(p) /\ Ended(p) /\ Failed(p) /\ Has(log[p], "copy-error")
        /\ IsInit(q) /\ Ended(q) /\ Skipped(q)

\* C21: source and destination are determined independently.  For every
\* invocation the template directory is <package root>/templates/.claude,
\* three levels above the compiled init module, whatever the working
\* directory, and the destination is <cwd>/.claude, whatever the
\* installation; an invocation writes under its own working directory
\* only, and runs of one installation from different working directories
\* that complete the copy leave the same tree, the template's, in each.
C21_SourceAndDestinationIndependent ==
    \A p, q \in Runs :
        /\ TemplateDir(p) = install \o <<"templates", ".claude">>
        /\ TemplateDir(p) = TemplateDir(q)
        /\ TargetDir(p) = Append(cwd[p], ".claude")
        /\ TemplateDir(p) = SubSeq(DirName, 1, Len(DirName) - 3)
                               \o <<"templates", ".claude">>
        /\ (IsInit(p) /\ Has(log[p], "stat")) => Source(p) = template
        /\ (IsInit(p) /\ Has(log[p], "copy-ok")) =>
               disk[cwd[p]] = DirNode(template.tree)
        /\ (/\ IsInit(p) /\ Has(log[p], "copy-ok")
            /\ IsInit(q) /\ Has(log[q], "copy-ok")) =>
               disk[cwd[p]] = disk[cwd[q]]
        /\ (\A r \in Runs : cwd[r] = cwd[p]) =>
               \A d \in WorkDirs \ {cwd[p]} : disk[d] = Absent

\* Two inits of one installation, started in different working
\* directories, that both copied a template with a nested file.
C21_Witness ==
    \E p, q \in Runs :
        /\ cwd[p] # cwd[q]
        /\ IsInit(p) /\ Ended(p) /\ Has(log[p], "copy-ok")
        /\ IsInit(q) /\ Ended(q) /\ Has(log[q], "copy-ok")
        /\ <<"skills", "foo", "SKILL.md">> \in DOMAIN template.tree
        /\ disk[cwd[p]] = disk[cwd[q]]

\* C22: the success report is a fixed text printed exactly once after a
\* successful copy: whatever the template tree contained and whatever was
\* copied, the output of a successful run is the banner, the copying line,
\* the success headline and then the same literal lines ("20 executable
\* skills", the ten listed skills, the four next steps), each once; the
\* report is never printed before the copy has completed, and a run that
\* ended after a completed copy has printed it.
C22_SuccessReportFixed ==
    LET text ==
            <<
               "Installed Resources:",
               "20 executable skills for code generation",
               "Architecture & conventions documentation",
               "Security audit guides",
               "Testing patterns & templates",
               "Available Skills:",
               "Core Generation:",
               "/gqlify:generate-module <Entity> - Scaffold complete module",
               "/gqlify:generate-field <Module> - Add DataLoader field",
               "/gqlify:add-field <Module> - Add entity property",
               "Advanced Features:",
               "/gqlify:add-export <Module> - CSV/Excel export",
               "/gqlify:add-filter <Module> - Advanced filtering",
               "/gqlify:add-i18n <Module> - Internationalization",
               "/gqlify:add-pagination <Module> - Paginated responses",
               "Code Quality:",
               "/gqlify:validate [--fix] - Validate code patterns",
               "/gqlify:audit-security - Security audit",
               "/gqlify:setup - Verify project setup",
               "See all 20 skills: ls .claude/skills/",
               "Next Steps:",
               "1. Read .claude/README.md for overview",
               "2. Review .claude/RULES.md for key constraints",
               "3. Try: /gqlify:generate-module Product",
               "4. Start building with Claude Code!"
            >>
    IN  \A p \in Runs :
            IsInit(p) =>
                /\ Count(stdout[p], "success") <= 1
                /\ Has(stdout[p], "success") =>
                       /\ Has(log[p], "copy-ok")
                       /\ stdout[p] = <<"banner", "copying", "success">> \o text
                       /\ \A i \in DOMAIN text : Count(stdout[p], text[i]) = 1
                       /\ \A q \in Runs :
                              (IsInit(q) /\ Has(stdout[q], "success")) =>
                                  stdout[q] = stdout[p]
                /\ ~Has(stdout[p], "success") =>
                       \A i \in DOMAIN text : ~Has(stdout[p], text[i])
                /\ (Ended(p) /\ Has(log[p], "copy-ok")) =>
                       Count(stdout[p], "success") = 1

\* A successful init whose template tree held no skill at all (only a
\* README.md was copied) and whose report still announces 20 skills.
C22_Witness ==
    \E p \in Runs :
        /\ IsInit(p) /\ Ended(p) /\ Has(log[p], "copy-ok")
        /\ DOMAIN template.tree = { <<"README.md">> }
        /\ dest = DirNode(template.tree)
        /\ Has(stdout[p], "20 executable skills for code generation")
        /\ Has(stdout[p], "See all 20 skills: ls .claude/skills/")

====
